---------------------------- MODULE Spec2Model ----------------------------
(***************************************************************************)
(* Model of agno/utils/mcp.py: the asynchronous and the synchronous        *)
(* entrypoint of an MCP tool, the bridge _run_async_with_timeout that runs *)
(* a coroutine from blocking code, and the normalisation of a              *)
(* CallToolResult into one string.                                         *)
(*                                                                         *)
(* A Python string is a sequence of tokens.  A token is either one         *)
(* whitespace character (" " or "\n") or a block of text that neither      *)
(* starts nor ends with whitespace, so that str.strip() is the removal of  *)
(* the whitespace tokens at both ends.                                     *)
(*                                                                         *)
(* One behaviour of the model is one session (with one fixed way of        *)
(* answering call_tool), one asynchronous invocation and one synchronous   *)
(* invocation of the entrypoints built for the same tool.  Time is a       *)
(* clock of whole seconds; a timer of asyncio or of concurrent.futures     *)
(* fires in the second it is due.                                          *)
(***************************************************************************)
EXTENDS Integers, Sequences, FiniteSets, TLC

(***************************************************************************)
(* Bounds of the model.                                                    *)
(***************************************************************************)
\* the longest content sequence of a CallToolResult
MaxItems == 2
\* timeout_seconds ranges over 1..MaxTimeout
MaxTimeout == 1
MaxNormItems == 2
MaxToolCalls == 3
MaxEmitToolCalls == 2
MaxBuffered == 2
MaxStreamToolCalls == 3
MaxStreamTexts == 1
MaxPairItems == 2

(***************************************************************************)
(* Program constants.                                                      *)
(***************************************************************************)
\* future.result(timeout=timeout_seconds + 5)
Grace == 5

ToolName == "T"

(***************************************************************************)
(* Strings.                                                                *)
(***************************************************************************)
Whitespace == {" ", "\n"}

RECURSIVE LStrip(_)
LStrip(s) ==
    IF s # <<>> /\ Head(s) \in Whitespace THEN LStrip(Tail(s)) ELSE s

RECURSIVE RStrip(_)
RStrip(s) ==
    IF s # <<>> /\ s[Len(s)] \in Whitespace
        THEN RStrip(SubSeq(s, 1, Len(s) - 1))
        ELSE s

\* str.strip(): leading and trailing whitespace removed
Strip(s) == LStrip(RStrip(s))

(***************************************************************************)
(* Content items of mcp.types, as the code distinguishes them.             *)
(***************************************************************************)
NoMime == "<absent>"

TextItem(t) == [type |-> "text", text |-> t, data |-> "", mimeType |-> NoMime]
ImageItem(d, m) == [type |-> "image", text |-> <<>>, data |-> d, mimeType |-> m]
ResourceItem == [type |-> "resource", text |-> <<"{res}">>, data |-> "", mimeType |-> NoMime]
OtherItem == [type |-> "audio", text |-> <<>>, data |-> "", mimeType |-> NoMime]

Items ==
    { TextItem(<<"a">>), TextItem(<<" ", "b">>),
      ImageItem("d1", "image/jpeg"), ImageItem("d2", NoMime),
      ResourceItem, OtherItem }

RECURSIVE SeqsUpTo(_, _)
SeqsUpTo(S, n) ==
    IF n = 0 THEN { <<>> }
    ELSE LET shorter == SeqsUpTo(S, n - 1)
         IN  shorter \cup { Append(s, x) : s \in shorter, x \in S }

Contents == SeqsUpTo(Items, MaxItems)

\* content for the claims about the normalized string: texts with
\* whitespace at the start, at the end, texts of whitespace only and the
\* empty text as well
NormItems ==
    Items \cup { TextItem(<<"c", " ">>), TextItem(<<"\n", "d", "\n">>),
                 TextItem(<<" ">>), TextItem(<<>>) }

NormContents == SeqsUpTo(NormItems, MaxNormItems)

\* ImageArtifact(id=str(uuid4()), url=getattr(item, "url", None),
\*               content=getattr(item, "data", None),
\*               mime_type=getattr(item, "mimeType", "image/png"))
\* The id is fresh for every artifact and is never compared: it is left out.
ImageArtifactNoDefault(item) ==
    [url |-> "None", content |-> item.data, mime_type |-> item.mimeType]
ImageArtifact(item) ==
    [url |-> "None",
     content |-> item.data,
     mime_type |-> IF item.mimeType = NoMime THEN "image/png" ELSE item.mimeType]

ImageLine == <<"Image has been generated and added to the response.", "\n">>

\* repr() of one content item and of the content list, as str.format puts it
\* into the message of the isError exception
ReprItem(item) ==
    CASE item.type = "text"     -> <<"TextContent(">> \o item.text \o <<")">>
      [] item.type = "image"    -> <<"ImageContent(", item.data, item.mimeType, ")">>
      [] item.type = "resource" -> <<"EmbeddedResource(">> \o item.text \o <<")">>
      [] OTHER                  -> <<"Content(", item.type, ")">>

RECURSIVE ReprItems(_)
ReprItems(content) ==
    IF content = <<>> THEN <<>>
    ELSE ReprItem(Head(content)) \o ReprItems(Tail(content))

ReprContent(content) == <<"[">> \o ReprItems(content) \o <<"]">>

(***************************************************************************)
(* call_tool, lines 45-67: the loop over result.content.  The state of     *)
(* the loop is response_str and the add_image calls made so far.           *)
(***************************************************************************)
CallToolItemSkipsResource(acc, item) ==
    CASE item.type = "text" ->
            [acc EXCEPT !.str = @ \o item.text \o <<"\n">>]
      [] item.type = "image" ->
            [acc EXCEPT !.images = Append(@, ImageArtifact(item)),
                        !.str = @ \o ImageLine]
      [] OTHER -> acc
CallToolItem(acc, item) ==
    CASE item.type = "text" ->
            [acc EXCEPT !.str = @ \o item.text \o <<"\n">>]
      [] item.type = "image" ->
            [acc EXCEPT !.images = Append(@, ImageArtifact(item)),
                        !.str = @ \o ImageLine]
      [] item.type = "resource" ->
            [acc EXCEPT !.str = @ \o <<"[Embedded resource: ">> \o item.text \o <<"]", "\n">>]
      [] OTHER ->
            [acc EXCEPT !.str = @ \o <<"[Unsupported content type: ", item.type, "]", "\n">>]

RECURSIVE CallToolLoop(_, _)
CallToolLoop(acc, content) ==
    IF content = <<>> THEN acc
    ELSE CallToolLoop(CallToolItem(acc, Head(content)), Tail(content))

\* the value returned at line 67 and the add_image calls made on the way
CallToolNormalizeNoStrip(content) ==
    CallToolLoop([str |-> <<>>, images |-> <<>>], content)
CallToolNormalize(content) ==
    LET acc == CallToolLoop([str |-> <<>>, images |-> <<>>], content)
    IN  [str |-> Strip(acc.str), images |-> acc.images]

(***************************************************************************)
(* _async_call_tool, lines 193-215: the same loop, written a second time.  *)
(***************************************************************************)
AsyncCallToolItemNoNewline(acc, item) ==
    CASE item.type = "text" ->
            [acc EXCEPT !.str = @ \o item.text]
      [] item.type = "image" ->
            [acc EXCEPT !.images = Append(@, ImageArtifact(item)),
                        !.str = @ \o ImageLine]
      [] item.type = "resource" ->
            [acc EXCEPT !.str = @ \o <<"[Embedded resource: ">> \o item.text \o <<"]", "\n">>]
      [] OTHER ->
            [acc EXCEPT !.str = @ \o <<"[Unsupported content type: ", item.type, "]", "\n">>]
AsyncCallToolItem(acc, item) ==
    CASE item.type = "text" ->
            [acc EXCEPT !.str = @ \o item.text \o <<"\n">>]
      [] item.type = "image" ->
            [acc EXCEPT !.images = Append(@, ImageArtifact(item)),
                        !.str = @ \o ImageLine]
      [] item.type = "resource" ->
            [acc EXCEPT !.str = @ \o <<"[Embedded resource: ">> \o item.text \o <<"]", "\n">>]
      [] OTHER ->
            [acc EXCEPT !.str = @ \o <<"[Unsupported content type: ", item.type, "]", "\n">>]

RECURSIVE AsyncCallToolLoop(_, _)
AsyncCallToolLoop(acc, content) ==
    IF content = <<>> THEN acc
    ELSE AsyncCallToolLoop(AsyncCallToolItem(acc, Head(content)), Tail(content))

AsyncCallToolNormalize(content) ==
    LET acc == AsyncCallToolLoop([str |-> <<>>, images |-> <<>>], content)
    IN  [str |-> Strip(acc.str), images |-> acc.images]


(***************************************************************************)
(* Outcomes of a call: a returned string or a raised exception.            *)
(***************************************************************************)
Return(v) == [kind |-> "return", type |-> "-", msg |-> <<>>, value |-> v]
Raise(type, msg) == [kind |-> "raise", type |-> type, msg |-> msg, value |-> <<>>]
NoOutcome == [kind |-> "none", type |-> "-", msg |-> <<>>, value |-> <<>>]

\* the exception classes the session raises in the model; CancelledError is
\* what the scheduler throws into a cancelled task
ExcTypes == {"Exception", "RuntimeError", "asyncio.TimeoutError"}

\* `except Exception` catches every class but the BaseException-only ones
IsException(type) == type # "CancelledError"

(***************************************************************************)
(* The session: call_tool answers every call the same way.  A cooperative  *)
(* call ends with CancelledError as soon as it is cancelled; an            *)
(* uncooperative one ignores the cancellation and answers later, or never. *)
(***************************************************************************)
Behaviours ==
    [kind : {"result"}, isError : BOOLEAN, content : Contents,
     type : {"-"}, msg : {<<>>}, coop : BOOLEAN]
    \cup
    [kind : {"raise"}, isError : {FALSE}, content : {<<>>},
     type : ExcTypes, msg : {<<"boom">>}, coop : BOOLEAN]

\* sessions that answer with a successful result over NormContents
NormBehaviours ==
    [kind : {"result"}, isError : {FALSE}, content : NormContents,
     type : {"-"}, msg : {<<>>}, coop : BOOLEAN]

\* the keyword arguments a caller passes to the entrypoint
KwargValue(k) == IF k = "tool_name" THEN "other" ELSE "v"
KwargsSet ==
    { [k \in K |-> KwargValue(k)] : K \in (SUBSET {"q", "tool_name"}) \ {{}} }

(***************************************************************************)
(* functools.partial(f, tool_name=tool.name)(agent, **kwargs): the         *)
(* keywords of the call are laid over the keywords of the partial, then    *)
(* bound to f(agent, tool_name, **kwargs).                                 *)
(***************************************************************************)
PartialCall(kwargs) ==
    LET keywords == [k \in {"tool_name"} |-> ToolName]
        merged == [k \in DOMAIN keywords \cup DOMAIN kwargs |->
                      IF k \in DOMAIN kwargs THEN kwargs[k] ELSE keywords[k]]
    IN  [tool_name |-> merged["tool_name"],
         kwargs |-> [k \in DOMAIN merged \ {"tool_name"} |-> merged[k]]]

\* session.call_tool(tool_name, kwargs, read_timeout_seconds=...)
SessionCall(bound) == [name |-> bound.tool_name, args |-> bound.kwargs]

\* call_tool, lines 35-39: the one await of session.call_tool
CallToolAwait(calls, bound) == Append(calls, SessionCall(bound))

\* _async_call_tool, lines 183-187: the one await of session.call_tool
AsyncCallToolAwaitRetry(calls, bound) ==
    Append(Append(calls, SessionCall(bound)), SessionCall(bound))
AsyncCallToolAwait(calls, bound) == Append(calls, SessionCall(bound))

\* f"Error from MCP tool '{tool_name}': {result.content}"
IsErrorMessage(tool_name, content) ==
    <<"Error from MCP tool '", tool_name, "': ">> \o ReprContent(content)

\* f"MCP tool call timed out after {timeout_seconds} seconds"
TimeoutMessageNoSeconds(seconds) == <<"MCP tool call timed out">>
TimeoutMessage(seconds) ==
    <<"MCP tool call timed out after ", ToString(seconds), " seconds">>

(***************************************************************************)
(* call_tool: the try block (lines 33-67) once the session has answered,   *)
(* and the handler (lines 68-70).                                          *)
(***************************************************************************)
CallToolTry(tool_name, beh) ==
    IF beh.kind = "raise"
        THEN [out |-> Raise(beh.type, beh.msg), images |-> <<>>]
    ELSE IF beh.isError
        THEN [out |-> Raise("Exception", IsErrorMessage(tool_name, beh.content)),
              images |-> <<>>]
    ELSE LET n == CallToolNormalize(beh.content)
         IN  [out |-> Return(n.str), images |-> n.images]

CallToolExceptBaseException(out) ==
    IF out.kind = "raise" THEN Return(<<"Error: ">> \o out.msg) ELSE out
CallToolExcept(out) ==
    IF out.kind = "raise" /\ IsException(out.type)
        THEN Return(<<"Error: ">> \o out.msg)
        ELSE out

(***************************************************************************)
(* _async_call_tool (lines 178-215) once the session has answered.         *)
(***************************************************************************)
AsyncCallToolNormalizeError(tool_name, beh) ==
    LET n == AsyncCallToolNormalize(beh.content)
    IN  IF beh.kind = "raise"
            THEN [out |-> Raise(beh.type, beh.msg), images |-> <<>>]
            ELSE [out |-> Return(n.str), images |-> n.images]
AsyncCallTool(tool_name, beh) ==
    IF beh.kind = "raise"
        THEN [out |-> Raise(beh.type, beh.msg), images |-> <<>>]
    ELSE IF beh.isError
        THEN [out |-> Raise("Exception", IsErrorMessage(tool_name, beh.content)),
              images |-> <<>>]
    ELSE LET n == AsyncCallToolNormalize(beh.content)
         IN  [out |-> Return(n.str), images |-> n.images]

\* call_tool_sync, lines 102-104
CallToolSyncExceptReraise(out) == out
CallToolSyncExcept(out) ==
    IF out.kind = "raise" /\ IsException(out.type)
        THEN Return(<<"Error: ">> \o out.msg)
        ELSE out

\* lines 69 and 103: log_exception(f"Failed to call MCP tool '{tool_name}':
\* {e}"), the first statement of the two handlers; what it adds to the log
LogExceptionNever(tool_name, out) == <<>>
LogException(tool_name, out) ==
    IF out.kind = "raise" /\ IsException(out.type)
        THEN << <<"Failed to call MCP tool '", tool_name, "': ">> \o out.msg >>
        ELSE <<>>

(***************************************************************************)
(* _run_async_with_timeout: the handlers around the task.                  *)
(***************************************************************************)
\* asyncio.wait_for cancelled the task at the deadline and the task ended
WaitForTimedOut == Raise("asyncio.TimeoutError", <<>>)

\* run_in_thread, lines 147-152: the task's result is returned, an
\* asyncio.TimeoutError is replaced, any other exception passes
RunInThreadExceptDropsResult(out, seconds) ==
    IF out.kind = "raise" /\ out.type = "asyncio.TimeoutError"
        THEN Raise("TimeoutError", TimeoutMessage(seconds))
    ELSE IF out.kind = "return" THEN Return(<<>>)
    ELSE out
RunInThreadExcept(out, seconds) ==
    IF out.kind = "raise" /\ out.type = "asyncio.TimeoutError"
        THEN Raise("TimeoutError", TimeoutMessage(seconds))
        ELSE out

\* lines 174-175
BranchAExcept(out, seconds) ==
    IF out.kind = "raise" /\ out.type = "asyncio.TimeoutError"
        THEN Raise("TimeoutError", TimeoutMessage(seconds))
        ELSE out

\* future.result(timeout=...) found no result at the outer deadline
FutureTimedOut == Raise("concurrent.futures.TimeoutError", <<>>)

\* lines 164-167: the builtin TimeoutError the worker raised is the same
\* class as concurrent.futures.TimeoutError from Python 3.11 on, and is
\* raised again with the same message; before 3.11 it passes through
\* unchanged: one result either way
FutureResultExcept(out, seconds) ==
    IF out.kind = "raise" /\ out.type \in {"concurrent.futures.TimeoutError", "TimeoutError"}
        THEN Raise("TimeoutError", TimeoutMessage(seconds))
        ELSE out

\* asyncio.run() called on a thread whose loop is running
AsyncioRunInRunningLoop ==
    Raise("RuntimeError", <<"asyncio.run() cannot be called from a running event loop">>)

\* lines 169-175: the handler meant for the failed probe also catches a
\* RuntimeError that comes out of the worker's future
EntersBranchAAfterB(out) == out.kind = "raise" /\ out.type = "RuntimeError"


(***************************************************************************)
(* State.                                                                  *)
(***************************************************************************)
VARIABLES
    beh,          \* how the session answers call_tool
    kwargs,       \* the keyword arguments the caller passes
    timeout,      \* timeout_seconds the entrypoints were built with
    loopRunning,  \* an event loop runs on the thread that calls call_tool_sync
    a,            \* the invocation of the async entrypoint
    s,            \* the invocation of the sync entrypoint
    w,            \* the worker thread of Branch B and its future
    now,          \* the clock, in seconds
    innerStart,   \* when asyncio.wait_for started to wait
    outerStart,   \* when future.result started to wait
    innerFired,   \* wait_for's deadline has passed and the task was cancelled
    outerFired,   \* future.result's deadline has passed
    otherPending, \* another task is ready to run on the caller's event loop
    eb,           \* the EventBuffer of the AG-UI stream and its last call
    em,           \* the last call of _emit_event_logic: its event, its result
    stream,       \* async_stream_agno_response_as_agui_events: where the run
                  \* stands and the events yielded so far
    pair          \* two invocations of one sync entrypoint on two threads

vars ==
    <<beh, kwargs, timeout, loopRunning, a, s, w, now, innerStart, outerStart,
      innerFired, outerFired, otherPending, eb, em, stream, pair>>

aguiVars == <<eb, em, stream>>

inputs == <<beh, kwargs, timeout, loopRunning>>
timers == <<now, innerStart, outerStart, innerFired, outerFired>>

\* EventBuffer(): not blocked, no tool call active or ended, nothing
\* buffered; last is the method called last and what it returned, and
\* ended_before_blocking whether the blocking tool call had already been
\* ended when it was started
NoToolCall == 0
NewEventBuffer ==
    [blocking_tool_call_id |-> NoToolCall,
     active_tool_call_ids |-> {},
     ended_tool_call_ids |-> {},
     buffer |-> <<>>,
     ended_before_blocking |-> FALSE,
     last |-> [op |-> "none", id |-> NoToolCall, returned |-> FALSE]]

\* no call of _emit_event_logic yet
NoEvent == [type |-> "none", tool_call_id |-> NoToolCall]
NoEmit == [event |-> NoEvent, events_to_emit |-> <<>>]

\* the stream function before the first chunk of the run: no tool call of
\* the run has started, no text message is open, nothing was yielded
StreamToolCallIds == 1..MaxStreamToolCalls
NewStream ==
    [calls |-> [id \in StreamToolCallIds |-> "new"],
     message_started |-> FALSE,
     finished |-> FALSE,
     texts |-> 0,
     yielded |-> <<>>]

\* two threads call the same sync entrypoint; each invocation has its own
\* locals: the result it was given, response_str, the position of its loop
\* over the content, the executors it has made, and its own agent
PairThreads == {"t1", "t2"}
PairItems == { TextItem(<<"a">>), TextItem(<<" ", "b">>), ImageItem("d1", "image/jpeg") }
PairContents == SeqsUpTo(PairItems, MaxPairItems)
NewPairInvocation(content, running) ==
    [pc |-> "idle", loopRunning |-> running, content |-> content, n |-> 0,
     response_str |-> <<>>, images |-> <<>>, executors |-> 0, out |-> NoOutcome]
NoPair == [t \in PairThreads |-> NewPairInvocation(<<>>, FALSE)]

\* an invocation: where it stands, the session calls it has made, the
\* add_image calls it has made on its agent, and how it ended; the event
\* loops its task was run on, and what became of the event loop that was
\* the calling thread's current one when the invocation began
NewInvocation ==
    [pc |-> "idle", calls |-> <<>>, images |-> <<>>, out |-> NoOutcome,
     tool_name |-> "", branches |-> <<>>, cause |-> "none",
     ranOn |-> <<>>, callerLoop |-> "as before", logs |-> <<>>,
     cancel_requested |-> FALSE]

\* the worker: no pool and no thread yet, its event loop not created, no
\* future; workers counts the threads the invocation has started
NoWorker ==
    [pc |-> "none", loop |-> "none", threadLoop |-> "unset", future |-> "none",
     out |-> NoOutcome, cause |-> "none", pool |-> "none", workers |-> 0]

Init ==
    /\ beh \in Behaviours
    /\ kwargs \in KwargsSet
    /\ timeout \in 1..MaxTimeout
    /\ loopRunning \in BOOLEAN
    /\ a = NewInvocation
    /\ s = NewInvocation
    /\ w = NoWorker
    /\ now = 0
    /\ innerStart = 0
    /\ outerStart = 0
    /\ innerFired = FALSE
    /\ outerFired = FALSE
    /\ otherPending = loopRunning
    /\ eb = NewEventBuffer
    /\ em = NoEmit
    /\ stream = NewStream
    /\ pair = NoPair

\* the same start, for a session that answers with a successful result
InitNorm ==
    /\ beh \in NormBehaviours
    /\ kwargs = [k \in {"q"} |-> KwargValue(k)]
    /\ timeout \in 1..MaxTimeout
    /\ loopRunning \in BOOLEAN
    /\ a = NewInvocation
    /\ s = NewInvocation
    /\ w = NoWorker
    /\ now = 0
    /\ innerStart = 0
    /\ outerStart = 0
    /\ innerFired = FALSE
    /\ outerFired = FALSE
    /\ otherPending = loopRunning
    /\ eb = NewEventBuffer
    /\ em = NoEmit
    /\ stream = NewStream
    /\ pair = NoPair

\* what decided an invocation, from the session's answer
CauseOf(b) ==
    IF b.kind = "raise" THEN "exception"
    ELSE IF b.isError THEN "isError" ELSE "result"

(***************************************************************************)
(* The async entrypoint, partial(call_tool, tool_name=tool.name).          *)
(***************************************************************************)
\* lines 32-39: up to the await of session.call_tool
AsyncCall ==
    /\ a.pc = "idle"
    /\ s.pc \in {"idle", "done"}
    /\ LET bound == PartialCall(kwargs)
       IN  a' = [a EXCEPT !.pc = "await",
                          !.tool_name = bound.tool_name,
                          !.calls = CallToolAwait(@, bound)]
    /\ UNCHANGED <<aguiVars, pair, inputs, s, w, timers, otherPending>>

\* lines 41-70: the session has answered
AsyncSessionDone ==
    /\ a.pc = "await"
    /\ LET r == CallToolTry(a.tool_name, beh)
       IN  a' = [a EXCEPT !.pc = "done",
                          !.images = @ \o r.images,
                          !.out = CallToolExcept(r.out),
                          !.logs = @ \o LogException(a.tool_name, r.out),
                          !.cause = CauseOf(beh)]
    /\ UNCHANGED <<aguiVars, pair, inputs, s, w, timers, otherPending>>

\* the caller's scheduler cancels the task while it is suspended at line 35:
\* CancelledError is raised at the await; a call that lets it through ends
\* the entrypoint with it, a call that swallows it stays suspended
AsyncCancelled ==
    /\ a.pc = "await"
    /\ ~a.cancel_requested
    /\ IF beh.coop
          THEN a' = [a EXCEPT !.pc = "done",
                              !.out = CallToolExcept(Raise("CancelledError", <<>>)),
                              !.logs = @ \o LogException(a.tool_name, Raise("CancelledError", <<>>)),
                              !.cause = "cancelled",
                              !.cancel_requested = TRUE]
          ELSE a' = [a EXCEPT !.cancel_requested = TRUE]
    /\ UNCHANGED <<aguiVars, pair, inputs, s, w, timers, otherPending>>

(***************************************************************************)
(* The sync entrypoint, partial(call_tool_sync, tool_name=tool.name), and  *)
(* _run_async_with_timeout.                                                *)
(***************************************************************************)
\* the probe of line 138: get_running_loop() raises RuntimeError when no
\* loop runs on the calling thread
ProbeFindsLoop(running) == running

\* lines 159-160: ThreadPoolExecutor(max_workers=1) is created and
\* submit(run_in_thread) queues the work item and starts the one thread
ExecutorSubmit(worker) ==
    [worker EXCEPT !.pc = "pending", !.future = "pending",
                   !.pool = "open", !.workers = @ + 1]

\* the end of the with block of line 159: shutdown(wait=True) has returned,
\* the worker thread has exited and the pool is gone
ExecutorExitKeepsPool(worker) == [worker EXCEPT !.pc = "exited"]
ExecutorExit(worker) == [worker EXCEPT !.pc = "exited", !.pool = "shutdown"]

\* lines 145-148: the loop made by asyncio.new_event_loop() in the worker
\* thread runs the task; set_event_loop(new_loop) is local to that thread
RunInThreadOnCallerLoop(inv, bound) ==
    [inv EXCEPT !.calls = AsyncCallToolAwait(@, bound),
                !.ranOn = Append(@, "caller"),
                !.callerLoop = "replaced"]
RunInThread(inv, bound) ==
    [inv EXCEPT !.calls = AsyncCallToolAwait(@, bound),
                !.ranOn = Append(@, "worker")]

\* line 173: asyncio.run makes a loop, makes it the calling thread's
\* current loop and runs the task on it
AsyncioRun(inv, bound) ==
    [inv EXCEPT !.calls = AsyncCallToolAwait(@, bound),
                !.ranOn = Append(@, "asyncio.run"),
                !.callerLoop = "asyncio.run"]

\* asyncio.run is left: its loop is closed and the calling thread's
\* current loop is set to None
AsyncioRunExit(inv) == [inv EXCEPT !.callerLoop = "unset"]

\* lines 90-99, 130-139 and 158-163: a loop is running, the task is
\* submitted to a fresh one-thread pool and the caller waits for the future
SyncCallBranchB ==
    /\ s.pc = "idle"
    /\ a.pc \in {"idle", "done"}
    /\ ProbeFindsLoop(loopRunning)
    /\ LET bound == PartialCall(kwargs)
       IN  s' = [s EXCEPT !.pc = "B_wait",
                          !.tool_name = bound.tool_name,
                          !.branches = Append(@, "B")]
    /\ w' = ExecutorSubmit(w)
    /\ outerStart' = now
    /\ UNCHANGED <<aguiVars, pair, inputs, a, now, innerStart, innerFired, outerFired, otherPending>>

\* lines 90-99, 130-138 and 169-173: no loop is running, asyncio.run starts
\* the task, which runs up to the await of session.call_tool (line 183)
SyncCallBranchA ==
    /\ s.pc = "idle"
    /\ a.pc \in {"idle", "done"}
    /\ ~ProbeFindsLoop(loopRunning)
    /\ LET bound == PartialCall(kwargs)
       IN  s' = [AsyncioRun(s, bound) EXCEPT !.pc = "A_await",
                                                 !.tool_name = bound.tool_name,
                                                 !.branches = Append(@, "A")]
    /\ innerStart' = now
    /\ UNCHANGED <<aguiVars, pair, inputs, a, w, now, outerStart, innerFired, outerFired, otherPending>>

\* Branch A: the session has answered; _async_call_tool finishes, wait_for
\* and asyncio.run hand its outcome on (an uncooperative task's outcome also
\* when the deadline has passed), then lines 174-175 and 101-104
BranchASessionDone ==
    /\ s.pc = "A_await"
    /\ LET r == AsyncCallTool(s.tool_name, beh)
       IN  s' = [AsyncioRunExit(s) EXCEPT
                          !.pc = "done",
                          !.images = @ \o r.images,
                          !.out = CallToolSyncExcept(BranchAExcept(r.out, timeout)),
                          !.logs = @ \o LogException(s.tool_name, BranchAExcept(r.out, timeout)),
                          !.cause = CauseOf(beh)]
    /\ UNCHANGED <<aguiVars, pair, inputs, a, w, timers, otherPending>>

\* Branch A: wait_for's deadline passes and it cancels the task.  A
\* cooperative task ends and wait_for raises asyncio.TimeoutError; an
\* uncooperative one goes on and wait_for goes on waiting for it.
BranchAInnerTimeout ==
    /\ s.pc = "A_await"
    /\ ~innerFired
    /\ now >= innerStart + timeout
    /\ innerFired' = TRUE
    /\ IF beh.coop
          THEN s' = [AsyncioRunExit(s) EXCEPT
                              !.pc = "done",
                              !.out = CallToolSyncExcept(BranchAExcept(WaitForTimedOut, timeout)),
                              !.logs = @ \o LogException(s.tool_name, BranchAExcept(WaitForTimedOut, timeout)),
                              !.cause = "inner"]
          ELSE s' = s
    /\ UNCHANGED <<aguiVars, pair, inputs, a, w, now, innerStart, outerStart, outerFired, otherPending>>


(***************************************************************************)
(* Branch B: the worker thread (run_in_thread, lines 142-156).             *)
(***************************************************************************)
\* lines 145-149: the worker takes the work item, makes its own loop and
\* runs the task up to the await of session.call_tool (line 183)
WorkerStart ==
    /\ w.pc = "pending"
    /\ w' = [w EXCEPT !.pc = "await", !.future = "running",
                      !.loop = "open", !.threadLoop = "set"]
    /\ s' = RunInThread(s, PartialCall(kwargs))
    /\ innerStart' = now
    /\ UNCHANGED <<aguiVars, pair, inputs, a, now, outerStart, innerFired, outerFired, otherPending>>

\* the worker's run ends with outcome out: lines 151-156, then the pool
\* stores the outcome in the future
WorkerLeaksLoop(out, cause) ==
    [w EXCEPT !.pc = "finished", !.future = "done",
              !.out = RunInThreadExcept(out, timeout), !.cause = cause]
WorkerEnds(out, cause) ==
    [w EXCEPT !.pc = "finished", !.future = "done",
              !.loop = "closed", !.threadLoop = "unset",
              !.out = RunInThreadExcept(out, timeout), !.cause = cause]

\* the session has answered the worker's task
WorkerSessionDone ==
    /\ w.pc = "await"
    /\ LET r == AsyncCallTool(s.tool_name, beh)
       IN  /\ s' = [s EXCEPT !.images = @ \o r.images]
           /\ w' = WorkerEnds(r.out, CauseOf(beh))
    /\ UNCHANGED <<aguiVars, pair, inputs, a, timers, otherPending>>

\* the worker's wait_for deadline passes and it cancels the task
WorkerInnerTimeout ==
    /\ w.pc = "await"
    /\ ~innerFired
    /\ now >= innerStart + timeout
    /\ innerFired' = TRUE
    /\ IF beh.coop
          THEN w' = WorkerEnds(WaitForTimedOut, "inner")
          ELSE w' = w
    /\ UNCHANGED <<aguiVars, pair, inputs, a, s, now, innerStart, outerStart, outerFired, otherPending>>

(***************************************************************************)
(* Branch B: the calling thread (lines 159-175 and 101-104).               *)
(***************************************************************************)
\* what leaves _run_async_with_timeout when `out` leaves the with block of
\* line 159: a RuntimeError is caught at line 169, and asyncio.run at line
\* 173 fails at once because the caller's loop is running
LeavesBridge(out) ==
    IF EntersBranchAAfterB(out)
        THEN BranchAExcept(AsyncioRunInRunningLoop, timeout)
        ELSE out

BranchesAfterB(out) ==
    IF EntersBranchAAfterB(out) THEN <<"B", "A">> ELSE <<"B">>

\* future.result returns the worker's outcome before the outer deadline;
\* the with block ends (shutdown(wait=True): the worker has no more work
\* and exits)
BranchBFutureDone ==
    /\ s.pc = "B_wait"
    /\ w.future = "done"
    /\ LET o == FutureResultExcept(w.out, timeout)
       IN  s' = [s EXCEPT !.pc = "done",
                          !.out = CallToolSyncExcept(LeavesBridge(o)),
                          !.logs = @ \o LogException(s.tool_name, LeavesBridge(o)),
                          !.branches = BranchesAfterB(o),
                          !.cause = w.cause]
    /\ w' = ExecutorExit(w)
    /\ UNCHANGED <<aguiVars, pair, inputs, a, timers, otherPending>>

\* lines 164-167: the outer deadline passes with the worker still running;
\* future.cancel() does nothing to a running future; TimeoutError is raised
\* and the with block of line 159 begins shutdown(wait=True)
BranchBOuterTimeoutNoGrace ==
    /\ s.pc = "B_wait"
    /\ w.future = "running"
    /\ now >= outerStart + timeout
    /\ outerFired' = TRUE
    /\ s' = [s EXCEPT !.pc = "B_join", !.cause = "outer"]
    /\ UNCHANGED <<aguiVars, pair, inputs, a, w, now, innerStart, outerStart, innerFired, otherPending>>
BranchBOuterTimeout ==
    /\ s.pc = "B_wait"
    /\ w.future = "running"
    /\ now >= outerStart + timeout + Grace
    /\ outerFired' = TRUE
    /\ s' = [s EXCEPT !.pc = "B_join", !.cause = "outer"]
    /\ UNCHANGED <<aguiVars, pair, inputs, a, w, now, innerStart, outerStart, innerFired, otherPending>>

\* shutdown(wait=True) returns once the worker's run has ended; the
\* TimeoutError of line 167 then leaves the with block
BranchBJoinDoneNoWait ==
    /\ s.pc = "B_join"
    /\ LET o == FutureResultExcept(FutureTimedOut, timeout)
       IN  s' = [s EXCEPT !.pc = "done",
                          !.out = CallToolSyncExcept(LeavesBridge(o)),
                          !.logs = @ \o LogException(s.tool_name, LeavesBridge(o)),
                          !.branches = BranchesAfterB(o)]
    /\ UNCHANGED <<aguiVars, pair, inputs, a, w, timers, otherPending>>
BranchBJoinDone ==
    /\ s.pc = "B_join"
    /\ w.pc = "finished"
    /\ LET o == FutureResultExcept(FutureTimedOut, timeout)
       IN  s' = [s EXCEPT !.pc = "done",
                          !.out = CallToolSyncExcept(LeavesBridge(o)),
                          !.logs = @ \o LogException(s.tool_name, LeavesBridge(o)),
                          !.branches = BranchesAfterB(o)]
    /\ w' = ExecutorExit(w)
    /\ UNCHANGED <<aguiVars, pair, inputs, a, timers, otherPending>>

(***************************************************************************)
(* The environment: time, and the caller's event loop.                     *)
(***************************************************************************)
InnerTimerDue ==
    /\ s.pc = "A_await" \/ w.pc = "await"
    /\ ~innerFired
    /\ now >= innerStart + timeout

OuterTimerDue ==
    /\ s.pc = "B_wait"
    /\ w.future = "running"
    /\ now >= outerStart + timeout + Grace

\* A second passes while the remote call is in flight and a deadline is
\* still to come.  A due timer fires before the clock moves on, and the
\* worker thread starts without delay (the grace of the outer deadline is
\* there to absorb its start-up).
Tick ==
    /\ \/ s.pc = "A_await" /\ ~innerFired
       \/ s.pc = "B_wait" /\ w.pc = "await"
    /\ ~InnerTimerDue
    /\ ~OuterTimerDue
    /\ now' = now + 1
    /\ UNCHANGED <<aguiVars, pair, inputs, a, s, w, innerStart, outerStart, innerFired, outerFired,
                   otherPending>>

\* The thread that runs the caller's event loop is inside call_tool_sync
\* from the call to the return: future.result (line 163) and the end of
\* the with block are blocking calls, not awaits.
LoopThreadFree == s.pc \in {"idle", "done"}

\* the caller's event loop runs its other ready task
RunOtherTask ==
    /\ loopRunning
    /\ otherPending
    /\ LoopThreadFree
    /\ otherPending' = FALSE
    /\ UNCHANGED <<aguiVars, pair, inputs, a, s, w, timers>>

Next ==
    \/ AsyncCall
    \/ AsyncSessionDone
    \/ AsyncCancelled
    \/ SyncCallBranchA
    \/ SyncCallBranchB
    \/ BranchASessionDone
    \/ BranchAInnerTimeout
    \/ WorkerStart
    \/ WorkerSessionDone
    \/ WorkerInnerTimeout
    \/ BranchBFutureDone
    \/ BranchBOuterTimeout
    \/ BranchBJoinDone
    \/ Tick
    \/ RunOtherTask

Spec == Init /\ [][Next]_vars

SpecNorm == InitNorm /\ [][Next]_vars

\* The steps the adapter and its runtime take by themselves are taken when
\* they stay possible: timers fire, the worker thread is scheduled, the
\* future's result and the pool's shutdown are delivered, time passes.
\* Nothing makes the session answer or the caller's scheduler cancel.
SpecFair ==
    /\ Spec
    /\ WF_vars(BranchAInnerTimeout)
    /\ WF_vars(WorkerStart)
    /\ WF_vars(WorkerInnerTimeout)
    /\ WF_vars(BranchBFutureDone)
    /\ WF_vars(BranchBOuterTimeout)
    /\ WF_vars(BranchBJoinDone)
    /\ WF_vars(Tick)

(***************************************************************************)
(* EventBuffer of agno.app.agui.utils, as its unit tests use it: the tool  *)
(* call that blocks the stream, the tool calls started and not ended, the  *)
(* tool calls ended, and the events held back.                             *)
(***************************************************************************)
ToolCallIds == 1..MaxToolCalls

is_blocked(buffer) == buffer.blocking_tool_call_id # NoToolCall

\* start_tool_call(tool_call_id): the tool call is active; it blocks the
\* buffer when nothing blocks it yet
start_tool_call_takes_over(buffer, tool_call_id) ==
    [buffer EXCEPT !.active_tool_call_ids = @ \cup {tool_call_id},
                   !.blocking_tool_call_id = tool_call_id,
                   !.last = [op |-> "start", id |-> tool_call_id, returned |-> FALSE]]
start_tool_call_not_active(buffer, tool_call_id) ==
    [buffer EXCEPT !.blocking_tool_call_id =
                        IF @ = NoToolCall THEN tool_call_id ELSE @,
                   !.last = [op |-> "start", id |-> tool_call_id, returned |-> FALSE]]
start_tool_call(buffer, tool_call_id) ==
    [buffer EXCEPT !.active_tool_call_ids = @ \cup {tool_call_id},
                   !.blocking_tool_call_id =
                        IF @ = NoToolCall THEN tool_call_id ELSE @,
                   !.ended_before_blocking =
                        IF buffer.blocking_tool_call_id = NoToolCall
                            THEN tool_call_id \in buffer.ended_tool_call_ids
                            ELSE @,
                   !.last = [op |-> "start", id |-> tool_call_id, returned |-> FALSE]]

\* end_tool_call(tool_call_id): the tool call is ended and no longer
\* active; True is returned, and the buffer unblocked, when it was the
\* blocking one
end_tool_call_always_unblocks(buffer, tool_call_id) ==
    [buffer EXCEPT !.active_tool_call_ids = @ \ {tool_call_id},
                   !.ended_tool_call_ids = @ \cup {tool_call_id},
                   !.blocking_tool_call_id = NoToolCall,
                   !.ended_before_blocking = FALSE,
                   !.last = [op |-> "end", id |-> tool_call_id, returned |-> TRUE]]
end_tool_call(buffer, tool_call_id) ==
    LET unblocked == tool_call_id = buffer.blocking_tool_call_id
    IN  [buffer EXCEPT !.active_tool_call_ids = @ \ {tool_call_id},
                       !.ended_tool_call_ids = @ \cup {tool_call_id},
                       !.blocking_tool_call_id =
                            IF unblocked THEN NoToolCall ELSE @,
                       !.ended_before_blocking = IF unblocked THEN FALSE ELSE @,
                       !.last = [op |-> "end", id |-> tool_call_id,
                                 returned |-> unblocked]]

mcpVars == <<inputs, a, s, w, timers, otherPending, pair>>

StartToolCall ==
    /\ \E id \in ToolCallIds : eb' = start_tool_call(eb, id)
    /\ UNCHANGED <<mcpVars, em, stream>>

EndToolCall ==
    /\ \E id \in ToolCallIds : eb' = end_tool_call(eb, id)
    /\ UNCHANGED <<mcpVars, em, stream>>

\* a fresh buffer; no tool is being called through the entrypoints
InitBuffer ==
    /\ eb = NewEventBuffer
    /\ em = NoEmit
    /\ stream = NewStream
    /\ pair = NoPair
    /\ beh = [kind |-> "result", isError |-> FALSE, content |-> <<>>,
              type |-> "-", msg |-> <<>>, coop |-> TRUE]
    /\ kwargs = [k \in {"q"} |-> KwargValue(k)]
    /\ timeout = 1
    /\ loopRunning = FALSE
    /\ a = NewInvocation
    /\ s = NewInvocation
    /\ w = NoWorker
    /\ now = 0
    /\ innerStart = 0
    /\ outerStart = 0
    /\ innerFired = FALSE
    /\ outerFired = FALSE
    /\ otherPending = FALSE

NextBuffer ==
    \/ StartToolCall
    \/ EndToolCall

SpecBuffer == InitBuffer /\ [][NextBuffer]_vars

(***************************************************************************)
(* _emit_event_logic(event, event_buffer) of agno.app.agui.utils, as its   *)
(* unit tests use it: it returns the events to emit now and keeps the      *)
(* others in event_buffer.buffer.                                          *)
(***************************************************************************)
EmitToolCallIds == 1..MaxEmitToolCalls

ToolCallEventTypes == {"TOOL_CALL_START", "TOOL_CALL_ARGS", "TOOL_CALL_END"}
ToolCallEvent(type, id) == [type |-> type, tool_call_id |-> id]
TextEvent == [type |-> "TEXT_MESSAGE_CONTENT", tool_call_id |-> NoToolCall]

Events ==
    { ToolCallEvent(type, id) : type \in ToolCallEventTypes, id \in EmitToolCallIds }
        \cup { TextEvent }

\* the event is emitted and the buffer's sets follow it: a START starts
\* its tool call, an END ends it
EmitNow(buffer, event) ==
    CASE event.type = "TOOL_CALL_START" -> start_tool_call(buffer, event.tool_call_id)
      [] event.type = "TOOL_CALL_END"   -> end_tool_call(buffer, event.tool_call_id)
      [] OTHER                          -> buffer

\* the events held back are emitted in the order they were buffered
RECURSIVE FlushBuffer(_, _)
FlushBuffer(buffer, pending) ==
    IF pending = <<>> THEN buffer
    ELSE FlushBuffer(EmitNow(buffer, Head(pending)), Tail(pending))

Buffered(buffer, event) ==
    [buffer |-> [buffer EXCEPT !.buffer = Append(@, event)],
     events_to_emit |-> <<>>]

Emitted(buffer, event) ==
    [buffer |-> EmitNow(buffer, event), events_to_emit |-> <<event>>]

\* the END of the blocking tool call: it is emitted, the tool call ends,
\* and the held back events follow it
FlushedKeepsBuffer(buffer, event) ==
    [buffer |-> FlushBuffer(end_tool_call(buffer, event.tool_call_id), buffer.buffer),
     events_to_emit |-> <<event>> \o buffer.buffer]
Flushed(buffer, event) ==
    [buffer |-> FlushBuffer([end_tool_call(buffer, event.tool_call_id)
                                EXCEPT !.buffer = <<>>],
                            buffer.buffer),
     events_to_emit |-> <<event>> \o buffer.buffer]

emit_event_logic_blocks_all(event, buffer) ==
    IF is_blocked(buffer)
        THEN IF event.type = "TOOL_CALL_END"
                    /\ event.tool_call_id = buffer.blocking_tool_call_id
                 THEN Flushed(buffer, event)
                 ELSE Buffered(buffer, event)
        ELSE Emitted(buffer, event)
emit_event_logic(event, buffer) ==
    IF is_blocked(buffer)
        THEN CASE event.type = "TOOL_CALL_ARGS" ->
                    IF event.tool_call_id \in buffer.active_tool_call_ids
                        THEN Emitted(buffer, event)
                        ELSE Buffered(buffer, event)
               [] event.type = "TOOL_CALL_END" ->
                    IF event.tool_call_id = buffer.blocking_tool_call_id
                        THEN Flushed(buffer, event)
                    ELSE IF event.tool_call_id \in buffer.active_tool_call_ids
                        THEN Emitted(buffer, event)
                        ELSE Buffered(buffer, event)
               [] OTHER -> Buffered(buffer, event)
        ELSE Emitted(buffer, event)

\* the tool call ids the buffer knows: active, ended, or of a held-back
\* event
SeenToolCallIds(buffer) ==
    (buffer.active_tool_call_ids \cup buffer.ended_tool_call_ids
        \cup { buffer.buffer[i].tool_call_id : i \in DOMAIN buffer.buffer })
      \ {NoToolCall}

\* tool call ids are opaque strings, compared only for equality: a step
\* names an id the buffer knows or, for a new tool call, the smallest id it
\* does not know
NextToolCallIds(buffer) ==
    { id \in EmitToolCallIds :
         \/ id \in SeenToolCallIds(buffer)
         \/ \A k \in 1..(id - 1) : k \in SeenToolCallIds(buffer) }

\* one call of _emit_event_logic on the buffer
EmitEvent ==
    /\ \E event \in Events :
          LET r == emit_event_logic(event, eb)
          IN  /\ event.tool_call_id \in NextToolCallIds(eb) \cup {NoToolCall}
              /\ Len(r.buffer.buffer) <= MaxBuffered
              /\ eb' = [r.buffer EXCEPT !.last = [op |-> "emit",
                                                  id |-> event.tool_call_id,
                                                  returned |-> FALSE]]
              /\ em' = [event |-> event, events_to_emit |-> r.events_to_emit]
    /\ UNCHANGED <<mcpVars, stream>>

\* the caller of _emit_event_logic calls the buffer's methods itself
EmitCallerStartsToolCall ==
    /\ \E id \in NextToolCallIds(eb) : eb' = start_tool_call(eb, id)
    /\ em' = NoEmit
    /\ UNCHANGED <<mcpVars, stream>>

EmitCallerEndsToolCall ==
    /\ \E id \in NextToolCallIds(eb) : eb' = end_tool_call(eb, id)
    /\ em' = NoEmit
    /\ UNCHANGED <<mcpVars, stream>>

NextEmit ==
    \/ EmitEvent
    \/ EmitCallerStartsToolCall
    \/ EmitCallerEndsToolCall

SpecEmit == InitBuffer /\ [][NextEmit]_vars

(***************************************************************************)
(* async_stream_agno_response_as_agui_events of agno.app.agui.utils, as    *)
(* its unit tests use it: every chunk of the run becomes AG-UI events,     *)
(* each of them goes through _emit_event_logic on the stream's own         *)
(* EventBuffer, and what that returns is yielded.                          *)
(***************************************************************************)
MessageEvent(type) == [type |-> type, tool_call_id |-> NoToolCall]

\* a chunk of text: the message is opened by the first one
ContentEvents(message_started) ==
    (IF message_started THEN <<>> ELSE <<MessageEvent("TEXT_MESSAGE_START")>>)
        \o <<TextEvent>>

\* the text message that is open is closed
MessageEndEvents(message_started) ==
    IF message_started THEN <<MessageEvent("TEXT_MESSAGE_END")>> ELSE <<>>

\* ToolCallStartedEvent: the START of the tool call and its arguments
StartedEvents(id) ==
    <<ToolCallEvent("TOOL_CALL_START", id), ToolCallEvent("TOOL_CALL_ARGS", id)>>

\* ToolCallCompletedEvent: the END of the tool call and its result
CompletedEventsWithoutEnd(id) == <<ToolCallEvent("TOOL_CALL_RESULT", id)>>
CompletedEvents(id) ==
    <<ToolCallEvent("TOOL_CALL_END", id), ToolCallEvent("TOOL_CALL_RESULT", id)>>

\* the event of RunEvent.run_completed
RunFinishedEvents == <<MessageEvent("RUN_FINISHED")>>

\* the events of one chunk go through _emit_event_logic one after another
RECURSIVE EmitAll(_, _)
EmitAll(acc, events) ==
    IF events = <<>> THEN acc
    ELSE LET r == emit_event_logic(Head(events), acc.buffer)
         IN  EmitAll([buffer |-> r.buffer,
                      yielded |-> acc.yielded \o r.events_to_emit,
                      em |-> [event |-> Head(events),
                              events_to_emit |-> r.events_to_emit]],
                     Tail(events))

\* the chunk's events are processed and what comes out is yielded
StreamChunk(events, next) ==
    LET r == EmitAll([buffer |-> eb, yielded |-> <<>>, em |-> em], events)
    IN  /\ eb' = [r.buffer EXCEPT !.last = [op |-> "emit",
                                            id |-> r.em.event.tool_call_id,
                                            returned |-> FALSE]]
        /\ em' = r.em
        /\ stream' = [next EXCEPT !.yielded = @ \o r.yielded]
        /\ UNCHANGED mcpVars

StreamContent ==
    /\ ~stream.finished
    /\ stream.texts < MaxStreamTexts
    /\ StreamChunk(ContentEvents(stream.message_started),
                   [stream EXCEPT !.message_started = TRUE, !.texts = @ + 1])

StreamToolCallStarted ==
    /\ ~stream.finished
    /\ \E id \in StreamToolCallIds :
          /\ stream.calls[id] = "new"
          /\ StreamChunk(MessageEndEvents(stream.message_started) \o StartedEvents(id),
                         [stream EXCEPT !.calls[id] = "started",
                                        !.message_started = FALSE])

StreamToolCallCompleted ==
    /\ ~stream.finished
    /\ \E id \in StreamToolCallIds :
          /\ stream.calls[id] = "started"
          /\ StreamChunk(CompletedEvents(id),
                         [stream EXCEPT !.calls[id] = "completed"])

\* the run completes when none of its tool calls is running
StreamRunCompleted ==
    /\ ~stream.finished
    /\ \A id \in StreamToolCallIds : stream.calls[id] # "started"
    /\ StreamChunk(MessageEndEvents(stream.message_started) \o RunFinishedEvents,
                   [stream EXCEPT !.finished = TRUE, !.message_started = FALSE])

NextStream ==
    \/ StreamContent
    \/ StreamToolCallStarted
    \/ StreamToolCallCompleted
    \/ StreamRunCompleted

SpecStream == InitBuffer /\ [][NextStream]_vars

(***************************************************************************)
(* Two invocations of one sync entrypoint, made from two threads.  The     *)
(* closure holds session, tool and timeout_seconds, which no invocation    *)
(* writes; everything an invocation writes is a local of its own frames.   *)
(***************************************************************************)
\* lines 90-99 and 136-173: the probe on the calling thread, then the
\* executor of Branch B or asyncio.run, up to the await of line 183
PairBridge(p, t) ==
    [p EXCEPT ![t].pc = "await",
              ![t].executors = IF ProbeFindsLoop(p[t].loopRunning) THEN @ + 1 ELSE @]

\* lines 193-194: the session has answered this invocation
PairAnswered(p, t) == [p EXCEPT ![t].pc = "loop", ![t].response_str = <<>>]

\* lines 194-213: one iteration of the loop over this invocation's content
PairItemSharedBuffer(p, t) ==
    LET inv == p[t]
        acc == AsyncCallToolItem([str |-> p["t1"].response_str, images |-> inv.images],
                                 inv.content[inv.n + 1])
    IN  [p EXCEPT ![t].images = acc.images, ![t].n = inv.n + 1,
                  !["t1"].response_str = acc.str]
PairItem(p, t) ==
    LET inv == p[t]
        acc == AsyncCallToolItem([str |-> inv.response_str, images |-> inv.images],
                                 inv.content[inv.n + 1])
    IN  [p EXCEPT ![t].response_str = acc.str, ![t].images = acc.images,
                  ![t].n = inv.n + 1]

\* line 215, then lines 148/163/173 and 99: the string is handed back
PairReturned(p, t) ==
    [p EXCEPT ![t].pc = "done", ![t].out = Return(Strip(p[t].response_str))]

pairFrame == <<inputs, a, s, w, timers, otherPending, aguiVars>>

PairCall ==
    /\ \E t \in PairThreads :
          /\ pair[t].pc = "idle"
          /\ pair' = PairBridge(pair, t)
    /\ UNCHANGED pairFrame

PairSessionDone ==
    /\ \E t \in PairThreads :
          /\ pair[t].pc = "await"
          /\ pair' = PairAnswered(pair, t)
    /\ UNCHANGED pairFrame

PairLoop ==
    /\ \E t \in PairThreads :
          /\ pair[t].pc = "loop"
          /\ pair[t].n < Len(pair[t].content)
          /\ pair' = PairItem(pair, t)
    /\ UNCHANGED pairFrame

PairReturn ==
    /\ \E t \in PairThreads :
          /\ pair[t].pc = "loop"
          /\ pair[t].n = Len(pair[t].content)
          /\ pair' = PairReturned(pair, t)
    /\ UNCHANGED pairFrame

\* each thread has its result to come and may or may not run a loop
InitPair ==
    /\ pair \in [PairThreads -> { NewPairInvocation(c, r) :
                                     c \in PairContents, r \in BOOLEAN }]
    /\ eb = NewEventBuffer
    /\ em = NoEmit
    /\ stream = NewStream
    /\ beh = [kind |-> "result", isError |-> FALSE, content |-> <<>>,
              type |-> "-", msg |-> <<>>, coop |-> TRUE]
    /\ kwargs = [k \in {"q"} |-> KwargValue(k)]
    /\ timeout = 1
    /\ loopRunning = FALSE
    /\ a = NewInvocation
    /\ s = NewInvocation
    /\ w = NoWorker
    /\ now = 0
    /\ innerStart = 0
    /\ outerStart = 0
    /\ innerFired = FALSE
    /\ outerFired = FALSE
    /\ otherPending = FALSE

NextPair ==
    \/ PairCall
    \/ PairSessionDone
    \/ PairLoop
    \/ PairReturn

SpecPair == InitPair /\ [][NextPair]_vars

(***************************************************************************)
(* Properties.                                                             *)
(***************************************************************************)
Invocations == {a, s}

StartsWithError(str) == Len(str) >= 1 /\ str[1] = "Error: "

FailureCauses == {"isError", "exception", "inner", "outer"}

\* C1: error isolation.  An invocation of either entrypoint that ended
\* because the session returned an isError result, raised an exception
\* (RuntimeError among them) or ran into a deadline has returned a string
\* that begins with "Error: " and has raised nothing, with or without an
\* event loop on the calling thread.
C1_ErrorIsolation ==
    \A inv \in Invocations :
        (inv.pc = "done" /\ inv.cause \in FailureCauses)
            => (inv.out.kind = "return" /\ StartsWithError(inv.out.value))

C1_Witness ==
    /\ a.pc = "done" /\ a.cause = "exception"
    /\ s.pc = "done" /\ s.cause = "exception"
    /\ loopRunning
    /\ beh.type = "RuntimeError"
    /\ s.out.kind = "return"

\* C2: deadlock freedom.  While the worker's remote call is in flight for a
\* sync invocation made on a thread whose event loop is running, that loop
\* can run its other ready task.
C2_SchedulerNotBlocked ==
    (loopRunning /\ otherPending /\ s.pc \in {"B_wait", "B_join"} /\ w.pc = "await")
        => ENABLED RunOtherTask

\* C3: once the outer deadline has fired, the calling thread is never
\* waiting for the worker's run to end.
C3_NeverWaitsForWorker ==
    ~(outerFired /\ s.pc = "B_join" /\ w.pc = "await")

\* C4: a call of _run_async_with_timeout enters exactly one branch, and
\* Branch A only when no loop runs on the calling thread.
C4_OneBranchPerCall ==
    /\ s.branches \in {<<>>, <<"A">>, <<"B">>}
    /\ s.branches = <<"A">> => ~loopRunning

\* C5: when the session raises an exception with message m, the sync
\* entrypoint returns "Error: " + m, the string the async entrypoint
\* returns, in Branch A and in Branch B.
C5_SameErrorString ==
    (a.pc = "done" /\ s.pc = "done" /\ a.cause = "exception" /\ s.cause = "exception")
        => (s.out = Return(<<"Error: ">> \o beh.msg) /\ s.out = a.out)

\* C6: for a successful CallToolResult the async entrypoint and the sync
\* entrypoint called with no event loop running return the same string.
C6_SyncAsyncSameResult ==
    (a.pc = "done" /\ s.pc = "done" /\ ~loopRunning
        /\ a.cause = "result" /\ s.cause = "result")
        => (a.out.kind = "return" /\ s.out = a.out)

C6_Witness ==
    /\ a.pc = "done" /\ s.pc = "done" /\ ~loopRunning
    /\ a.cause = "result" /\ s.cause = "result"
    /\ Len(beh.content) = 2
    /\ beh.content[1].type = "text"
    /\ beh.content[2].type = "image"
    /\ Len(s.out.value) > 2

\* C7: a sync invocation whose remote call was not complete at a deadline
\* (Branch A's, Branch B's inner or Branch B's outer) returns the timeout
\* error string, the same one for the three deadlines.
C7_DeadlineGivesTimeoutString ==
    (s.pc = "done" /\ (innerFired \/ outerFired))
        => s.out = Return(<<"Error: ">> \o TimeoutMessage(timeout))

\* C8: an isError result is never normalized.  No add_image call is made
\* for it, and the invocation returns "Error: " followed by the message
\* that names the tool called and holds the repr of the raw content.
C8_IsErrorNotNormalized ==
    \A inv \in Invocations :
        /\ (beh.kind = "result" /\ beh.isError) => inv.images = <<>>
        /\ (inv.pc = "done" /\ inv.cause = "isError")
              => inv.out = Return(<<"Error: ", "Error from MCP tool '", inv.calls[1].name, "': ">>
                                  \o ReprContent(beh.content))

C8_Witness ==
    /\ a.pc = "done" /\ a.cause = "isError"
    /\ s.pc = "done" /\ s.cause = "isError"
    /\ \E i \in 1..Len(beh.content) : beh.content[i].type = "image"

C10_CallsDescriptorName ==
    \A inv \in Invocations :
        \A i \in 1..Len(inv.calls) :
            /\ inv.calls[i].name = ToolName
            /\ DOMAIN inv.calls[i].args = DOMAIN kwargs
            /\ \A k \in DOMAIN kwargs : inv.calls[i].args[k] = kwargs[k]

\* C11: in Branch B, whenever the worker's run has ended (the task
\* returned, the inner deadline fired, or the task raised), the worker's
\* own event loop is closed and the thread's loop is unset, and this is so
\* when the worker thread has exited.
C11_WorkerLoopTornDown ==
    w.pc \in {"finished", "exited"} => (w.loop = "closed" /\ w.threadLoop = "unset")

C11_Witness ==
    /\ w.pc = "exited"
    /\ w.cause = "inner"
    /\ w.loop = "closed"

\* C12: a sync invocation starts no worker thread in Branch A and one in
\* Branch B, never more, and when it has returned the pool it created is
\* shut down and its thread has exited.
C12_AtMostOneWorker ==
    /\ w.workers <= 1
    /\ (s.branches # <<>> /\ Head(s.branches) = "A") => (w.workers = 0 /\ w.pool = "none")
    /\ (s.branches # <<>> /\ Head(s.branches) = "B") => w.workers = 1
    /\ s.pc = "done" => (w.pool \in {"none", "shutdown"} /\ w.pc \in {"none", "exited"})

C12_Witness ==
    /\ s.pc = "done"
    /\ s.cause = "outer"
    /\ w.workers = 1
    /\ w.pool = "shutdown"

Carries(str, token) == \E i \in DOMAIN str : str[i] = token

DeadlineCauses == {"inner", "outer"}

InFlight == {"A_await", "B_wait", "B_join"}

\* C14: bounded timeout on both entrypoints.  Whatever the session does,
\* answering never included, an invocation of the async entrypoint that
\* awaits the session ends, and so does an invocation of the sync
\* entrypoint, with an "Error: " string when a deadline has fired.
C14_BoundedTimeout ==
    /\ (a.pc = "await") ~> (a.pc = "done")
    /\ (s.pc \in InFlight) ~> (s.pc = "done" /\ (innerFired \/ outerFired => StartsWithError(s.out.value)))

\* C15: the result does not depend on the branch.  A sync invocation
\* decided by a successful result has returned the normalized string of
\* that result's content and made the add_image calls of that content, in
\* order, whether it ran the call on its own thread (no loop running,
\* Branch A) or on the worker (loop running, Branch B).
C15_ResultIndependentOfBranch ==
    (s.pc = "done" /\ s.cause = "result")
        => LET n == AsyncCallToolNormalize(beh.content)
           IN  /\ s.out = Return(n.str)
               /\ s.images = n.images
               /\ s.branches = IF loopRunning THEN <<"B">> ELSE <<"A">>

C15_Witness ==
    /\ s.pc = "done"
    /\ s.cause = "result"
    /\ loopRunning
    /\ w.pc = "exited"
    /\ Len(s.images) = 1
    /\ Len(s.out.value) > 2

IsImage(item) == item.type = "image"
ImagesOf(content) == SelectSeq(content, IsImage)

\* C17: image side effects.  An invocation of either entrypoint decided by
\* a successful result has made one add_image call for each Image item of
\* the content and no other, in the order of the Image items, each with
\* that item's data and its mimeType, "image/png" when the item has none.
C17_OneImagePerImageItem ==
    \A inv \in Invocations :
        (inv.pc = "done" /\ inv.cause = "result")
            => LET imgs == ImagesOf(beh.content)
               IN  /\ Len(inv.images) = Len(imgs)
                   /\ \A k \in 1..Len(imgs) :
                        /\ inv.images[k].content = imgs[k].data
                        /\ inv.images[k].mime_type =
                              IF imgs[k].mimeType = NoMime
                                  THEN "image/png" ELSE imgs[k].mimeType

C17_Witness ==
    /\ a.pc = "done"
    /\ a.cause = "result"
    /\ Len(a.images) = 2
    /\ a.images[1].content = "d2"
    /\ a.images[1].mime_type = "image/png"
    /\ a.images[2].content = "d1"

\* what one content item contributes to the string, without the newline
Segment(item) ==
    CASE item.type = "text"     -> item.text
      [] item.type = "image"    -> <<"Image has been generated and added to the response.">>
      [] item.type = "resource" -> <<"[Embedded resource: ">> \o item.text \o <<"]">>
      [] OTHER                  -> <<"[Unsupported content type: ", item.type, "]">>

RECURSIVE Segments(_)
Segments(content) ==
    IF content = <<>> THEN <<>>
    ELSE Segment(Head(content)) \o Segments(Tail(content))

\* the segments with one newline between consecutive ones
RECURSIVE JoinLines(_)
JoinLines(content) ==
    IF content = <<>> THEN <<>>
    ELSE IF Len(content) = 1 THEN Segment(Head(content))
    ELSE Segment(Head(content)) \o <<"\n">> \o JoinLines(Tail(content))

IsVisible(token) == token \notin Whitespace
Visible(str) == SelectSeq(str, IsVisible)

\* C16: ordering of normalization.  The visible text of the string an
\* invocation returns for a successful result is the visible text of the
\* items' segments in the order of the items, none left out: an Image
\* item's segment is the fixed line, an EmbeddedResource's and an unknown
\* item's is its bracketed fallback.
C16_SegmentsInItemOrder ==
    \A inv \in Invocations :
        (inv.pc = "done" /\ inv.cause = "result")
            => Visible(inv.out.value) = Visible(Segments(beh.content))

C16_Witness ==
    /\ a.pc = "done"
    /\ a.cause = "result"
    /\ Len(beh.content) = 2
    /\ beh.content[1].type = "resource"
    /\ beh.content[2].type = "image"
    /\ Len(Visible(a.out.value)) = 4

\* C18: separator invariant.  Leaving aside whitespace at its start, the
\* string returned for a successful result is the items' contributions
\* with exactly one newline between consecutive ones and the whitespace at
\* its end removed; it never ends with a newline.
C18_OneNewlineBetweenItems ==
    \A inv \in Invocations :
        (inv.pc = "done" /\ inv.cause = "result")
            => /\ LStrip(inv.out.value) = LStrip(RStrip(JoinLines(beh.content)))
               /\ inv.out.value # <<>> => inv.out.value[Len(inv.out.value)] # "\n"

C18_Witness ==
    /\ a.pc = "done"
    /\ a.cause = "result"
    /\ beh.content = <<TextItem(<<"a">>), TextItem(<<"c", " ">>)>>
    /\ a.out.value = <<"a", "\n", "c">>

\* C19: only trailing whitespace is trimmed.  The string returned for a
\* successful result is the joined segments with the whitespace at the end
\* removed, whitespace at the start of the first item's text kept.
C19_OnlyTrailingTrimmed ==
    \A inv \in Invocations :
        (inv.pc = "done" /\ inv.cause = "result")
            => inv.out.value = RStrip(JoinLines(beh.content))

\* C20: EventBuffer blocker assignment.  start_tool_call(id) on a buffer
\* that is not blocked makes id the blocking tool call; on a blocked buffer
\* it leaves the blocking id as it was; both add id to the active set,
\* where an id started twice stands once.
C20_BlockerAssignment ==
    [][eb'.last.op = "start"
          => LET id == eb'.last.id
             IN  /\ eb'.active_tool_call_ids = eb.active_tool_call_ids \cup {id}
                 /\ Cardinality(eb'.active_tool_call_ids)
                        = Cardinality(eb.active_tool_call_ids \ {id}) + 1
                 /\ eb'.blocking_tool_call_id =
                        IF is_blocked(eb) THEN eb.blocking_tool_call_id ELSE id]_vars

C20_Witness ==
    /\ eb.last.op = "start"
    /\ eb.last.id = 2
    /\ eb.blocking_tool_call_id = 1
    /\ eb.active_tool_call_ids = {1, 2}
    /\ eb.ended_tool_call_ids = {}

\* C21: EventBuffer unblocking.  After any sequence of start_tool_call
\* and end_tool_call, end_tool_call(id) returns True exactly when id is
\* the blocking tool call, and then the buffer is not blocked; otherwise
\* (id active but not blocking, never started, already ended) it returns
\* False and the blocking id stays; id is then ended and not active.
C21_EndUnblocksOnlyBlocker ==
    [][eb'.last.op = "end"
          => LET id == eb'.last.id
             IN  /\ eb'.last.returned = (id = eb.blocking_tool_call_id)
                 /\ id = eb.blocking_tool_call_id
                        => (~is_blocked(eb') /\ eb'.blocking_tool_call_id = NoToolCall)
                 /\ id # eb.blocking_tool_call_id
                        => eb'.blocking_tool_call_id = eb.blocking_tool_call_id
                 /\ id \in eb'.ended_tool_call_ids
                 /\ id \notin eb'.active_tool_call_ids]_vars

C21_Witness ==
    /\ eb.last = [op |-> "end", id |-> 1, returned |-> TRUE]
    /\ ~is_blocked(eb)
    /\ eb.active_tool_call_ids = {2, 3}
    /\ eb.ended_tool_call_ids = {1}

\* a step that is one call of _emit_event_logic on a buffer blocked by x
EmitWhileBlockedBy(x) ==
    /\ eb'.last.op = "emit"
    /\ is_blocked(eb)
    /\ eb.blocking_tool_call_id = x

HeldBack(event) ==
    /\ em'.events_to_emit = <<>>
    /\ eb'.buffer = Append(eb.buffer, event)
    /\ eb'.blocking_tool_call_id = eb.blocking_tool_call_id
    /\ eb'.active_tool_call_ids = eb.active_tool_call_ids
    /\ eb'.ended_tool_call_ids = eb.ended_tool_call_ids

EmittedAtOnce(event) ==
    /\ em'.events_to_emit = <<event>>
    /\ eb'.buffer = eb.buffer
    /\ eb'.blocking_tool_call_id = eb.blocking_tool_call_id

\* C22: no deadlock among parallel tool calls.  While tool call x blocks
\* the buffer, _emit_event_logic holds back the START of another tool call
\* and the ARGS of a tool call that is not active, and emits at once the
\* END or ARGS of an active tool call other than x; that END moves its
\* tool call from active to ended and x stays the blocking, active one.
C22_ActiveToolCallsNotHeldBack ==
    [][\A x \in EmitToolCallIds :
          EmitWhileBlockedBy(x)
            => LET event == em'.event
                   id == event.tool_call_id
               IN  /\ (event.type = "TOOL_CALL_START" /\ id # x) => HeldBack(event)
                   /\ (event.type = "TOOL_CALL_ARGS" /\ id \notin eb.active_tool_call_ids)
                          => HeldBack(event)
                   /\ (event.type \in {"TOOL_CALL_ARGS", "TOOL_CALL_END"}
                          /\ id \in eb.active_tool_call_ids /\ id # x)
                          => EmittedAtOnce(event)
                   /\ (event.type = "TOOL_CALL_END"
                          /\ id \in eb.active_tool_call_ids /\ id # x)
                          => /\ id \notin eb'.active_tool_call_ids
                             /\ id \in eb'.ended_tool_call_ids
                             /\ x \in eb'.active_tool_call_ids]_vars

C22_Witness ==
    /\ em.event = ToolCallEvent("TOOL_CALL_END", 2)
    /\ em.events_to_emit = <<ToolCallEvent("TOOL_CALL_END", 2)>>
    /\ eb.last.op = "emit"
    /\ eb.blocking_tool_call_id = 1
    /\ eb.active_tool_call_ids = {1}
    /\ eb.ended_tool_call_ids = {2}
    /\ eb.buffer = <<ToolCallEvent("TOOL_CALL_START", 2)>>

IsStart(event) == event.type = "TOOL_CALL_START"

\* the tool call of the first START among the events, NoToolCall without one
RECURSIVE FirstStarted(_)
FirstStarted(events) ==
    IF events = <<>> THEN NoToolCall
    ELSE IF IsStart(Head(events)) THEN Head(events).tool_call_id
    ELSE FirstStarted(Tail(events))

EndsToolCall(events, id) ==
    \E i \in DOMAIN events : events[i] = ToolCallEvent("TOOL_CALL_END", id)

Positions(events, event) == { i \in DOMAIN events : events[i] = event }

StartedIn(run) == { id \in StreamToolCallIds : run.calls[id] # "new" }

\* C24: streamed tool-call events are neither lost nor reordered within a
\* tool call.  When a run whose tool calls may overlap has completed, the
\* stream function has yielded one TOOL_CALL_START and one TOOL_CALL_END
\* for every tool call of the run and none for another, each START before
\* its END, and RUN_FINISHED once, as the last event; START and END of a
\* tool call are never yielded twice, nor an END before its START.
C24_ToolCallEventsKept ==
    /\ \A id \in StreamToolCallIds :
          LET starts == Positions(stream.yielded, ToolCallEvent("TOOL_CALL_START", id))
              ends == Positions(stream.yielded, ToolCallEvent("TOOL_CALL_END", id))
          IN  /\ Cardinality(starts) <= 1
              /\ Cardinality(ends) <= 1
              /\ \A e \in ends : \E b \in starts : b < e
              /\ id \notin StartedIn(stream) => (starts = {} /\ ends = {})
              /\ stream.finished
                    => (id \in StartedIn(stream)
                            => (Cardinality(starts) = 1 /\ Cardinality(ends) = 1))
    /\ stream.finished
          => /\ Positions(stream.yielded, MessageEvent("RUN_FINISHED"))
                    = {Len(stream.yielded)}
             /\ eb.buffer = <<>>
    /\ ~stream.finished
          => Positions(stream.yielded, MessageEvent("RUN_FINISHED")) = {}

C24_Witness ==
    /\ stream.finished
    /\ stream.yielded =
          <<ToolCallEvent("TOOL_CALL_START", 1), ToolCallEvent("TOOL_CALL_ARGS", 1),
            ToolCallEvent("TOOL_CALL_END", 1),
            ToolCallEvent("TOOL_CALL_START", 2), ToolCallEvent("TOOL_CALL_ARGS", 2),
            ToolCallEvent("TOOL_CALL_END", 2),
            ToolCallEvent("TOOL_CALL_RESULT", 1), ToolCallEvent("TOOL_CALL_RESULT", 2),
            MessageEvent("RUN_FINISHED")>>

WorkerStarted == w.pc \notin {"none", "pending"}

C26_WorkerLoopIsolated ==
    loopRunning
        => /\ \A i \in DOMAIN s.ranOn : s.ranOn[i] = "worker"
           /\ s.callerLoop = "as before"
           /\ s.pc = "done" => (s.ranOn # <<>> /\ w.loop = "closed")
           /\ s.ranOn # <<>> => w.loop \in {"open", "closed"}

C26_Witness ==
    /\ loopRunning
    /\ s.pc = "done"
    /\ s.ranOn = <<"worker">>
    /\ s.callerLoop = "as before"
    /\ s.branches = <<"B", "A">>

\* C27: independent invocations.  Of two invocations made concurrently
\* through one sync entrypoint from two threads, each returns the
\* normalization of its own result and has made the add_image calls of its
\* own result, whatever the interleaving of their steps, and each has made
\* its own executor when its thread runs a loop and none otherwise.
C27_IndependentInvocations ==
    \A t \in PairThreads :
        /\ pair[t].pc = "done"
              => LET n == AsyncCallToolNormalize(pair[t].content)
                 IN  /\ pair[t].out = Return(n.str)
                     /\ pair[t].images = n.images
        /\ pair[t].pc # "idle"
              => pair[t].executors = IF pair[t].loopRunning THEN 1 ELSE 0

C27_Witness ==
    /\ pair["t2"].pc = "done"
    /\ pair["t2"].out = Return(<<"a">>)
    /\ pair["t1"].pc = "loop"
    /\ pair["t1"].n = 1
    /\ pair["t1"].content = <<TextItem(<<" ", "b">>), ImageItem("d1", "image/jpeg")>>
    /\ pair["t1"].loopRunning
    /\ ~pair["t2"].loopRunning

\* C28: log before conversion.  An invocation of either entrypoint that
\* has returned after a failure has called log_exception exactly once, with
\* the message of the exception its handler caught, and has returned
\* "Error: " followed by that message and nothing else; an invocation that
\* has not failed has logged no exception.
C28_LoggedOnceBeforeError ==
    \A inv \in Invocations :
        /\ (inv.pc = "done" /\ inv.cause \in FailureCauses)
              => /\ Len(inv.logs) = 1
                 /\ inv.out.kind = "return"
                 /\ inv.logs[1] = <<"Failed to call MCP tool '", inv.tool_name, "': ">>
                                      \o SubSeq(inv.out.value, 2, Len(inv.out.value))
                 /\ inv.out.value[1] = "Error: "
        /\ (inv.pc # "done" \/ inv.cause \notin FailureCauses) => inv.logs = <<>>

C28_Witness ==
    /\ s.pc = "done"
    /\ s.cause = "outer"
    /\ Len(s.logs) = 1
    /\ a.pc = "done"
    /\ a.cause = "isError"
    /\ Len(a.logs) = 1

\* C29: EventBuffer invariant, as stated.  After any sequence of
\* start_tool_call, end_tool_call and _emit_event_logic steps the buffer is
\* blocked exactly when blocking_tool_call_id is set, and a set
\* blocking_tool_call_id is a member of active_tool_call_ids and not of
\* ended_tool_call_ids.
C29_BlockerActiveNotEnded ==
    /\ is_blocked(eb) <=> eb.blocking_tool_call_id \in EmitToolCallIds
    /\ is_blocked(eb) => /\ eb.blocking_tool_call_id \in eb.active_tool_call_ids
                         /\ eb.blocking_tool_call_id \notin eb.ended_tool_call_ids

\* C29: EventBuffer invariant, as the buffer keeps it.  The buffer is
\* blocked exactly when blocking_tool_call_id is set, and a set
\* blocking_tool_call_id is a member of active_tool_call_ids; it is a member
\* of ended_tool_call_ids only when that id had already been ended when
\* its start made it the blocking one.
C29_BlockerActive ==
    /\ is_blocked(eb) <=> eb.blocking_tool_call_id \in EmitToolCallIds
    /\ is_blocked(eb) =>
          /\ eb.blocking_tool_call_id \in eb.active_tool_call_ids
          /\ eb.blocking_tool_call_id \in eb.ended_tool_call_ids
                => eb.ended_before_blocking

\* the buffer is unblocked while a tool call is still active, after the
\* blocking one was ended by an event
C29_Witness ==
    /\ ~ is_blocked(eb)
    /\ eb.active_tool_call_ids # {}
    /\ eb.ended_tool_call_ids # {}
    /\ eb.last.op = "emit"

\* C30: no late mutation of the agent.  Every step that adds an image to
\* the agent for the sync invocation is taken while the invocation is
\* running, after its start and not after its return: once call_tool_sync
\* has returned, in either branch, with a result or with an error string,
\* the images of the agent stay as they are.
C30_NoAddImageAfterReturn ==
    [][s'.images # s.images => /\ s.pc \notin {"idle", "done"}
                               /\ Len(s'.images) >= Len(s.images)
                               /\ SubSeq(s'.images, 1, Len(s.images)) = s.images]_vars

\* the sync entrypoint has returned the outer deadline's error string in
\* Branch B, and the worker had added an image before the return
C30_Witness ==
    /\ s.pc = "done"
    /\ s.cause = "outer"
    /\ s.branches = <<"B">>
    /\ s.images # <<>>
    /\ s.out.kind = "return"
    /\ s.out.value[1] = "Error: "
    /\ w.pc = "exited"

\* C31: errors leave the agent untouched.  An invocation of either
\* entrypoint that has returned a string of the failure path, "Error: "
\* followed by a message, has made no agent.add_image call: the images of
\* the agent are as they were before the invocation.
C31_ErrorsAddNoImage ==
    \A inv \in Invocations :
        (/\ inv.pc = "done"
         /\ inv.cause \in FailureCauses
         /\ inv.out.kind = "return"
         /\ StartsWithError(inv.out.value)) => inv.images = <<>>

\* C32: cancellation is not turned into text, as stated.  Once the
\* caller's scheduler has cancelled the task running the async entrypoint
\* while it was suspended in the remote call, the entrypoint ends with the
\* CancelledError: it returns no string, "Error: " or other, and has made
\* no add_image call.
C32_CancellationPropagates ==
    (a.cancel_requested /\ a.pc = "done")
        => /\ a.out = Raise("CancelledError", <<>>)
           /\ a.images = <<>>

\* C32: cancellation is not turned into text, for a remote call that ends
\* when it is cancelled.  The cancellation ends the entrypoint at once with
\* the CancelledError, which the handler neither catches nor logs; no
\* string is returned and no add_image call is made.  For every call, an
\* entrypoint that ended by the cancellation has raised the CancelledError.
C32_CancellationPropagatesIfHonoured ==
    /\ (a.cancel_requested /\ beh.coop)
          => /\ a.pc = "done"
             /\ a.cause = "cancelled"
    /\ a.cause = "cancelled"
          => /\ a.cancel_requested
             /\ a.out = Raise("CancelledError", <<>>)
             /\ a.images = <<>>
             /\ a.logs = <<>>

\* the task was cancelled at the await of a call that would have answered
\* with an image
C32_Witness ==
    /\ a.pc = "done"
    /\ a.cause = "cancelled"
    /\ a.cancel_requested
    /\ beh.coop
    /\ beh.kind = "result"
    /\ ~beh.isError
    /\ \E i \in DOMAIN beh.content : beh.content[i].type = "image"
    /\ a.out.kind = "raise"

=============================================================================
